---- MODULE Spec2Model ----
(***************************************************************************)
(* The Recording lifecycle of the consultation backend: the recordings     *)
(* endpoints (start, stop, upload, transcribe), the background processing  *)
(* task and the transcription router of AudioService, over the recordings  *)
(* table.                                                                  *)
(*                                                                         *)
(* Scheduling.  start and stop are `def` endpoints: they run in the        *)
(* thread pool and take steps at any time.  upload, transcribe and the     *)
(* background tasks are coroutines of the one event loop: a coroutine     *)
(* keeps the loop from the point it is resumed to its next real            *)
(* suspension (an awaited file or network operation, or the end of the     *)
(* request).  The AssemblyAI and OpenAI SDK calls are blocking calls made  *)
(* inside a coroutine, so they do not release the loop; the aiofiles and   *)
(* httpx calls do.  Every database commit is one atomic step.  Database    *)
(* operations are taken not to fail.                                       *)
(*                                                                         *)
(* Text values.  A Python Optional[str] is a sequence of string parts:     *)
(* None is <<>>, the string "" is <<"">>, an f-string is the sequence of   *)
(* its parts.                                                              *)
(***************************************************************************)
EXTENDS Integers, Sequences, FiniteSets, TLC

\* ---------------------------------------------------------------- bounds
MaxRecordings == 2
MaxRequests == 2
MaxFiles == 2

\* ------------------------------------------------------- program constants
MAX_FILE_SIZE == 104857600
ALLOWED_AUDIO_EXTENSIONS == {"wav", "mp3", "m4a", "flac", "aac"}

LanguageEnum == {"ENGLISH", "FRENCH", "SWAHILI", "KINYARWANDA"}
RecordingStatusEnum ==
    {"RECORDING", "STOPPED", "UPLOADED", "PROCESSING", "TRANSCRIBING",
     "DIARIZING", "COMPLETED", "FAILED"}

\* ------------------------------------------------------------ environment
\* The sessions table belongs to the sessions endpoints; the recordings
\* endpoints only read it.  Session 3 does not exist.
SessionTable == (1 :> "active") @@ (2 :> "completed")
SessionIds == {1, 2, 3}

\* A recording id no row has (ids are random UUIDs).
MissingId == 0

\* Uploaded contents, the file names they come with and their sizes.
Audio == {"speech", "silence"}
Filenames == {<<"visit", "wav">>, <<"notes", "txt">>}
Sizes == {MAX_FILE_SIZE, MAX_FILE_SIZE + 1}

\* What the speech providers hear in a stored file: a pure function of it.
SpokenText(audio) == IF audio = "speech" THEN "muraho" ELSE ""

None == <<>>
Truthy(s) == \E k \in DOMAIN s : s[k] # ""

\* ------------------------------------------------------------------ state
VARIABLES
    recs,       \* the recordings table: row id -> row (ids 1..Len(recs))
    reqs,       \* requests and background tasks in flight, by slot
    loop,       \* the slot whose coroutine holds the event loop, or 0
    stored,     \* number of files written by save_audio_file
    calls,      \* per recording: the provider calls of its latest transcribe_audio run
    response,   \* the last HTTP response sent
    config,     \* AudioService / settings, fixed at start-up
    transcript_words,   \* the words of an AssemblyAI transcript given to the synthesis
    word_segments,      \* the segments synthesized from them
    transcript_utterances,  \* the utterances of an AssemblyAI transcript
    utterance_segments,     \* the segments built from them
    active_sessions,        \* LiveTranscriptionService.active_sessions: room -> session
    transcription_callbacks,    \* LiveTranscriptionService.transcription_callbacks: room -> callbacks
    live_result             \* what the last call on the live service returned or raised

utter == <<transcript_utterances, utterance_segments>>

live == <<active_sessions, transcription_callbacks, live_result>>

vars ==
    <<recs, reqs, loop, stored, calls, response, config, transcript_words, word_segments,
      utter, live>>

\* A Python dict: a function on the set of its keys.
EmptyDict == [k \in {} |-> 0]

Put(dict, key, value) == [k \in DOMAIN dict \cup {key} |-> IF k = key THEN value ELSE dict[k]]

Del(dict, key) == [k \in DOMAIN dict \ {key} |-> dict[k]]

\* Nothing has been given to the segment builders, and the live
\* transcription service is as LiveTranscriptionService.__init__ leaves it.
NoUtterances == transcript_utterances = <<>> /\ utterance_segments = <<>>

NoLiveSessions ==
    /\ active_sessions = EmptyDict
    /\ transcription_callbacks = EmptyDict
    /\ live_result = [op |-> "none", room |-> "", outcome |-> "none"]

Slots == 1..MaxRequests

Idle ==
    [kind |-> "idle", pc |-> "", rec |-> 0, session |-> 0, language |-> "",
     audio |-> "", name |-> <<>>, size |-> 0, ret |-> None]

IsIdle(i) == reqs[i].kind = "idle"

\* The lowest free slot takes the next request.
FreeSlot(i) == IsIdle(i) /\ \A j \in Slots : j < i => ~IsIdle(j)

RowIds == 1..Len(recs)

\* Recording(**obj_data): the column defaults of the model.
Recording(obj_data) ==
    [session_id |-> obj_data.session_id,
     file_name |-> obj_data.file_name,
     file_path |-> obj_data.file_path,
     language |-> obj_data.language,
     status |-> "RECORDING",
     file_size_bytes |-> 0,
     transcript |-> None,
     transcript_segments |-> <<>>,
     processing_error |-> None,
     additional_data |-> <<>>]

\* RecordingCreate(session_id, file_name, file_path).model_dump(): language
\* is not passed and takes the schema default.
RecordingCreate(session_id) ==
    [session_id |-> session_id,
     file_name |-> <<"recording_", "wav">>,
     file_path |-> "",
     language |-> "ENGLISH"]

\* BaseRepository.update: set the given fields of the row and commit.
Update(id, row) == [recs EXCEPT ![id] = row]

\* The query without its status filter turned the right way: it finds the
\* session's stopped recordings instead of its active one.
get_stopped_recording_by_session(session_id) ==
    {r \in RowIds : recs[r].session_id = session_id /\ recs[r].status = "STOPPED"}

\* RecordingRepository.get_active_recording_by_session
get_active_recording_by_session(session_id) ==
    {r \in RowIds : recs[r].session_id = session_id /\ recs[r].status = "RECORDING"}

\* A recordings table that already holds a row in a language other than the
\* default: start_recording only ever writes the default language, so such a
\* row was written to the table by something else.
SeedRows ==
    {<<Recording([RecordingCreate(1) EXCEPT !.language = l])>> :
        l \in LanguageEnum \ {"ENGLISH"}}

Settings ==
    [use_assemblyai : BOOLEAN, openai_client : BOOLEAN,
     ENABLE_SPEAKER_DIARIZATION : BOOLEAN]

\* The service after start-up, with the given rows in the table.
Started(rows) ==
    /\ recs = rows
    /\ reqs = [i \in Slots |-> Idle]
    /\ loop = 0
    /\ stored = 0
    /\ calls = [r \in 1..Len(rows) |-> <<>>]
    /\ response = [op |-> "none", code |-> 0]
    /\ config \in Settings
    /\ transcript_words = <<>>
    /\ word_segments = <<>>
    /\ NoUtterances
    /\ NoLiveSessions

Init == Started(<<>>)

SeededInit == \E rows \in SeedRows : Started(rows)

\* ------------------------------------------------------------------ start
\* start_recording without its check of the session's status.
StartErrorAnyStatus(session_id) ==
    IF session_id \notin DOMAIN SessionTable THEN 404
    ELSE IF get_active_recording_by_session(session_id) # {} THEN 400
    ELSE 0

\* RecordingService.start_recording up to the active-recording check, and
\* the endpoint's mapping of ValueError to a status code.
StartError(session_id) ==
    IF session_id \notin DOMAIN SessionTable THEN 404
    ELSE IF SessionTable[session_id] # "active" THEN 400
    ELSE IF get_active_recording_by_session(session_id) # {} THEN 400
    ELSE 0

StartReject(session_id, language) ==
    /\ StartError(session_id) # 0
    /\ response' = [op |-> "start", code |-> StartError(session_id)]
    /\ UNCHANGED <<recs, reqs, loop, stored, calls, config, transcript_words, word_segments, utter, live>>

StartsInFlight == {i \in Slots : reqs[i].kind = "start"}

StartCheck(i, session_id, language) ==
    /\ FreeSlot(i)
    /\ StartError(session_id) = 0
    /\ Len(recs) + Cardinality(StartsInFlight) < MaxRecordings
    /\ reqs' = [reqs EXCEPT ![i] =
                  [Idle EXCEPT !.kind = "start", !.pc = "create",
                               !.session = session_id, !.language = language]]
    /\ UNCHANGED <<recs, loop, stored, calls, response, config, transcript_words, word_segments, utter, live>>

StartCreate(i) ==
    /\ reqs[i].kind = "start"
    /\ recs' = Append(recs, Recording(RecordingCreate(reqs[i].session)))
    /\ calls' = Append(calls, <<>>)
    /\ response' = [op |-> "start", code |-> 201]
    /\ reqs' = [reqs EXCEPT ![i] = Idle]
    /\ UNCHANGED <<loop, stored, config, transcript_words, word_segments, utter, live>>

\* ------------------------------------------------------------------- stop
\* stop_recording without its check of the recording's status.
StopErrorAnyStatus(id) ==
    IF id \notin RowIds THEN 404 ELSE 0

\* RecordingService.stop_recording and the endpoint's status codes.
StopError(id) ==
    IF id \notin RowIds THEN 404
    ELSE IF recs[id].status # "RECORDING" THEN 400
    ELSE 0

StopReject(id) ==
    /\ StopError(id) # 0
    /\ response' = [op |-> "stop", code |-> StopError(id)]
    /\ UNCHANGED <<recs, reqs, loop, stored, calls, config, transcript_words, word_segments, utter, live>>

StopRecording(id) ==
    /\ StopError(id) = 0
    /\ recs' = Update(id, [recs[id] EXCEPT !.status = "STOPPED"])
    /\ response' = [op |-> "stop", code |-> 200]
    /\ UNCHANGED <<reqs, loop, stored, calls, config, transcript_words, word_segments, utter, live>>

\* ----------------------------------------------------------- AudioService
\* The validation that lets every file name through.
validate_any_file(filename) == Len(filename) > 0

\* AudioService.validate_audio_file: filename.lower().split('.')[-1] is an
\* allowed extension.  A file name is the sequence of its dot-separated
\* parts (the names used here are lower case already).
validate_audio_file(filename) ==
    filename[Len(filename)] \in ALLOWED_AUDIO_EXTENSIONS

\* save_audio_file returns the path of the new file; reading that path gives
\* the bytes that were written.
SavedPath(audio) == IF audio = "speech" THEN "uploads/speech.wav" ELSE "uploads/silence.wav"
FileContent(path) == IF path = "uploads/speech.wav" THEN "speech" ELSE "silence"

\* Seconds from the providers' milliseconds: ms / 1000.0, kept exact as a
\* numerator over 1000.
Seconds(ms) == <<ms, 1000>>

\* What AssemblyAI returns for a file when it succeeds: utterances only when
\* speaker labels were asked for.
AssemblyTranscript(audio, speaker_labels) ==
    IF audio = "speech"
    THEN [text |-> SpokenText(audio),
          utterances |-> IF speaker_labels
                         THEN <<[speaker |-> "A", text |-> "muraho", start |-> 0,
                                 end |-> 600, confidence |-> 90]>>
                         ELSE <<>>,
          words |-> <<[text |-> "muraho", start |-> 0, end |-> 600]>>]
    ELSE [text |-> SpokenText(audio), utterances |-> <<>>, words |-> <<>>]

\* What Whisper returns for a file when it succeeds.
WhisperTranscript(audio) ==
    IF audio = "speech"
    THEN [text |-> SpokenText(audio),
          segments |-> <<[text |-> "muraho", start |-> <<0, 1>>, end |-> <<1, 1>>,
                          avg_logprob |-> -1]>>]
    ELSE [text |-> SpokenText(audio), segments |-> <<>>]

\* The label mapping with the two roles exchanged.
UtteranceSpeakerSwapped(label) ==
    IF label = "A" THEN "patient"
    ELSE IF label = "B" THEN "practitioner"
    ELSE "unknown"

\* The speaker of an AssemblyAI utterance label.
UtteranceSpeaker(label) ==
    IF label = "A" THEN "practitioner"
    ELSE IF label = "B" THEN "patient"
    ELSE "unknown"

UtteranceSegments(utterances) ==
    [k \in DOMAIN utterances |->
        [text |-> <<utterances[k].text>>,
         speaker |-> UtteranceSpeaker(utterances[k].speaker),
         start_time |-> Seconds(utterances[k].start),
         end_time |-> Seconds(utterances[k].end),
         confidence |-> utterances[k].confidence]]

\* Segments from words, without diarization: a segment is closed by the
\* word that takes it past 10 seconds or past 50 words.
SegmentSpanMs == 10000
SegmentWords == 50

WordSegment(cur) ==
    [text |-> cur.words, speaker |-> "unknown",
     start_time |-> Seconds(cur.start), end_time |-> Seconds(cur.end),
     confidence |-> 80]

\* The loop without the final "if current_segment_words" that adds the
\* remaining words.
RECURSIVE WordSegmentsUnflushed(_, _, _, _)
WordSegmentsUnflushed(words, k, cur, segments) ==
    IF k > Len(words)
    THEN segments
    ELSE LET w == words[k]
             next == [words |-> Append(cur.words, w.text),
                      start |-> IF cur.words = <<>> THEN w.start ELSE cur.start,
                      end |-> w.end]
         IN IF (w.end - next.start) > SegmentSpanMs \/ Len(next.words) > SegmentWords
            THEN WordSegmentsUnflushed(words, k + 1, [words |-> <<>>, start |-> 0, end |-> 0],
                                       Append(segments, WordSegment(next)))
            ELSE WordSegmentsUnflushed(words, k + 1, next, segments)

RECURSIVE WordSegmentsFrom(_, _, _, _)
WordSegmentsFrom(words, k, cur, segments) ==
    IF k > Len(words)
    THEN IF cur.words # <<>> THEN Append(segments, WordSegment(cur)) ELSE segments
    ELSE LET w == words[k]
             next == [words |-> Append(cur.words, w.text),
                      start |-> IF cur.words = <<>> THEN w.start ELSE cur.start,
                      end |-> w.end]
         IN IF (w.end - next.start) > SegmentSpanMs \/ Len(next.words) > SegmentWords
            THEN WordSegmentsFrom(words, k + 1, [words |-> <<>>, start |-> 0, end |-> 0],
                                  Append(segments, WordSegment(next)))
            ELSE WordSegmentsFrom(words, k + 1, next, segments)

WordSegments(words) ==
    WordSegmentsFrom(words, 1, [words |-> <<>>, start |-> 0, end |-> 0], <<>>)

\* str(e) of the exception a provider call raised.
ExceptionText(outcome) == IF outcome = "raise" THEN "connection reset" ELSE "error"

AssemblyOutcomes == {"ok", "error", "raise"}
OpenAIOutcomes == {"ok", "raise"}
PindoOutcomes == {"ok", "non200", "raise"}
TranslateOutcomes == {"ok", "raise"}

\* The success path without the reset of processing_error.
assemblyai_completed_keeping_error(row, text, segments) ==
    [row EXCEPT !.transcript = <<text>>,
                !.transcript_segments = segments,
                !.status = "COMPLETED"]

\* _transcribe_with_assemblyai, "Update recording with results".
assemblyai_completed(row, text, segments) ==
    [row EXCEPT !.transcript = <<text>>,
                !.transcript_segments = segments,
                !.status = "COMPLETED",
                !.processing_error = None]

\* AudioService._transcribe_with_assemblyai.  Every path is inside the
\* method's own try: it returns and never raises.
transcribe_with_assemblyai(row, cfg, outcome) ==
    LET t == AssemblyTranscript(FileContent(row.file_path), cfg.ENABLE_SPEAKER_DIARIZATION)
        segments == IF cfg.ENABLE_SPEAKER_DIARIZATION /\ t.utterances # <<>>
                    THEN UtteranceSegments(t.utterances)
                    ELSE WordSegments(t.words)
    IN  IF outcome = "error"
        THEN [row |-> [row EXCEPT !.status = "FAILED",
                                  !.processing_error = <<"AssemblyAI error: ", "bad audio">>],
              ret |-> None, raised |-> FALSE]
        ELSE IF outcome = "ok"
        THEN [row |-> assemblyai_completed(row, t.text, segments),
              ret |-> <<t.text>>, raised |-> FALSE]
        ELSE [row |-> [row EXCEPT !.status = "FAILED",
                                  !.processing_error = <<ExceptionText(outcome)>>],
              ret |-> None, raised |-> FALSE]

\* AudioService._transcribe_with_openai
transcribe_with_openai(row, cfg, outcome) ==
    LET t == WhisperTranscript(FileContent(row.file_path))
        segments == [k \in DOMAIN t.segments |->
                        [text |-> <<t.segments[k].text>>, speaker |-> "unknown",
                         start_time |-> t.segments[k].start,
                         end_time |-> t.segments[k].end,
                         confidence |-> t.segments[k].avg_logprob]]
    IN  IF ~cfg.openai_client
        THEN [row |-> [row EXCEPT !.status = "FAILED",
                                  !.processing_error = <<"OpenAI API key not configured">>],
              ret |-> None]
        ELSE IF outcome = "ok"
        THEN [row |-> [row EXCEPT !.transcript = <<t.text>>,
                                  !.transcript_segments = segments,
                                  !.status = "COMPLETED",
                                  !.processing_error = None],
              ret |-> <<t.text>>]
        ELSE [row |-> [row EXCEPT !.status = "FAILED",
                                  !.processing_error = <<ExceptionText(outcome)>>],
              ret |-> None]

\* Every recording is routed to the Kinyarwanda transcription service.
SentToPindoAnyLanguage(row) == row.language \in LanguageEnum

\* transcribe_audio, "Route transcription based on language": the first
\* branch, taken for KINYARWANDA, goes to _transcribe_kinyarwanda.
SentToPindo(row) == row.language = "KINYARWANDA"

\* AudioService.transcribe_audio for the languages it does not send to
\* Pindo: the rows it leaves, what it returns and the provider calls made.
transcribe_audio(row, cfg, primary, secondary) ==
    IF row.language \in {"ENGLISH", "FRENCH", "SWAHILI"}
    THEN IF cfg.use_assemblyai
         THEN LET a == transcribe_with_assemblyai(row, cfg, primary)
              IN  IF a.raised
                  THEN IF cfg.openai_client
                       THEN LET b == transcribe_with_openai(a.row, cfg, secondary)
                            IN  [row |-> b.row, ret |-> b.ret,
                                 calls |-> <<<<"assemblyai", primary>>, <<"openai", secondary>>>>]
                       ELSE [row |-> a.row, ret |-> None,
                             calls |-> <<<<"assemblyai", primary>>>>]
                  ELSE [row |-> a.row, ret |-> a.ret,
                        calls |-> <<<<"assemblyai", primary>>>>]
         ELSE IF cfg.openai_client
         THEN LET b == transcribe_with_openai(row, cfg, secondary)
              IN  [row |-> b.row, ret |-> b.ret, calls |-> <<<<"openai", secondary>>>>]
         ELSE [row |-> row, ret |-> None, calls |-> <<>>]
    ELSE [row |-> row, ret |-> None, calls |-> <<>>]

\* str.strip(): the text without its leading and trailing whitespace.
Whitespace == {" ", "\n"}

RECURSIVE LStrip(_)
LStrip(s) == IF s # <<>> /\ Head(s) \in Whitespace THEN LStrip(Tail(s)) ELSE s

RECURSIVE RStrip(_)
RStrip(s) ==
    IF s # <<>> /\ s[Len(s)] \in Whitespace THEN RStrip(SubSeq(s, 1, Len(s) - 1)) ELSE s

Strip(s) == RStrip(LStrip(s))

\* The text of Pindo's answer for a file, as received: what was spoken,
\* with whitespace around it.
PindoText(file_content) ==
    IF file_content = "speech" THEN <<" ", SpokenText(file_content), "\n">> ELSE <<" ">>

\* The content of the chat completion that translates a text, as received.
CompletionText(kinyarwanda_text) ==
    IF kinyarwanda_text = <<"muraho">> THEN <<"hello", "\n">> ELSE <<"\n">>

\* The translation that returns nothing when it fails.
translate_to_english_or_nothing(kinyarwanda_text, cfg, outcome) ==
    IF cfg.openai_client /\ outcome = "ok"
    THEN Strip(CompletionText(kinyarwanda_text))
    ELSE <<>>

\* AudioService._translate_to_english
translate_to_english(kinyarwanda_text, cfg, outcome) ==
    IF ~cfg.openai_client
    THEN <<"[Translation unavailable] ">> \o kinyarwanda_text
    ELSE IF outcome = "ok"
    THEN Strip(CompletionText(kinyarwanda_text))
    ELSE <<"[Translation failed] ">> \o kinyarwanda_text

\* The dual-language result with the two texts the other way round.
pindo_completed_swapped(row, transcript_text, english_translation) ==
    [row EXCEPT
        !.transcript = <<"English: ">> \o transcript_text
                       \o <<"\n\nKinyarwanda: ">> \o english_translation,
        !.transcript_segments =
            <<[text |-> transcript_text, speaker |-> "unknown",
               start_time |-> <<0, 1>>, end_time |-> <<0, 1>>, confidence |-> 85]>>,
        !.status = "COMPLETED",
        !.processing_error = None,
        !.additional_data =
            [original_language |-> "KINYARWANDA", translated_language |-> "ENGLISH",
             original_text |-> english_translation, translated_text |-> transcript_text]]

\* _transcribe_kinyarwanda, "Update recording with dual-language results".
pindo_completed(row, transcript_text, english_translation) ==
    [row EXCEPT
        !.transcript = <<"English: ">> \o english_translation
                       \o <<"\n\nKinyarwanda: ">> \o transcript_text,
        !.transcript_segments =
            <<[text |-> transcript_text, speaker |-> "unknown",
               start_time |-> <<0, 1>>, end_time |-> <<0, 1>>, confidence |-> 85]>>,
        !.status = "COMPLETED",
        !.processing_error = None,
        !.additional_data =
            [original_language |-> "KINYARWANDA", translated_language |-> "ENGLISH",
             original_text |-> transcript_text, translated_text |-> english_translation]]

\* The non-200 path without the error text.
pindo_http_error_unrecorded(row) ==
    [row EXCEPT !.status = "FAILED"]

\* _transcribe_kinyarwanda, response.status_code != 200.
pindo_http_error(row) ==
    [row EXCEPT !.status = "FAILED",
                !.processing_error = <<"Pindo API error: ", "500">>]

\* AudioService._transcribe_kinyarwanda, from the Pindo response on;
\* file_content is what was read from the file before the request.
transcribe_kinyarwanda(row, file_content, cfg, outcome, translation) ==
    LET transcript_text == Strip(PindoText(file_content))
        english_translation == translate_to_english(transcript_text, cfg, translation)
    IN  IF outcome = "non200"
        THEN [row |-> pindo_http_error(row), ret |-> None]
        ELSE IF outcome = "raise"
        THEN [row |-> [row EXCEPT !.status = "FAILED",
                                  !.processing_error = <<"Pindo API error: ", ExceptionText(outcome)>>],
              ret |-> None]
        ELSE IF transcript_text = <<>>
        THEN [row |-> [row EXCEPT !.status = "FAILED",
                                  !.processing_error = <<"Empty transcription from Pindo API">>],
              ret |-> None]
        ELSE [row |-> pindo_completed(row, transcript_text, english_translation),
              ret |-> transcript_text]

\* ----------------------------------------------------------------- upload
\* The upload endpoint up to its save: the size check of the endpoint, then
\* RecordingService.upload_audio_file, which returns None (raising nothing)
\* for an id it does not find.
UploadError(id, name, size) ==
    IF size > MAX_FILE_SIZE THEN 413
    ELSE IF id \notin RowIds THEN 0
    ELSE IF recs[id].status \notin {"RECORDING", "STOPPED"} THEN 400
    ELSE IF ~validate_audio_file(name) THEN 400
    ELSE IF size > MAX_FILE_SIZE THEN 400
    ELSE 0

UploadReject(id, name, size) ==
    /\ loop = 0
    /\ UploadError(id, name, size) # 0
    /\ response' = [op |-> "upload", code |-> UploadError(id, name, size)]
    /\ UNCHANGED <<recs, reqs, loop, stored, calls, config, transcript_words, word_segments, utter, live>>

UploadsInFlight == {i \in Slots : reqs[i].kind = "upload"}

\* Validation passed: the coroutine is suspended in save_audio_file.
UploadValidate(i, id, audio, name, size) ==
    /\ loop = 0
    /\ FreeSlot(i)
    /\ UploadError(id, name, size) = 0
    /\ stored + Cardinality(UploadsInFlight) < MaxFiles
    /\ reqs' = [reqs EXCEPT ![i] =
                  [Idle EXCEPT !.kind = "upload", !.pc = "save", !.rec = id,
                               !.audio = audio, !.name = name, !.size = size]]
    /\ UNCHANGED <<recs, loop, stored, calls, response, config, transcript_words, word_segments, utter, live>>

\* The end of the upload handler without add_task.
UploadSaveNoTask(i) ==
    /\ loop = 0
    /\ reqs[i].kind = "upload"
    /\ reqs[i].rec \in RowIds
    /\ stored' = stored + 1
    /\ recs' = Update(reqs[i].rec,
                  [recs[reqs[i].rec] EXCEPT
                     !.file_name = reqs[i].name,
                     !.file_path = IF reqs[i].audio = "speech" THEN "uploads/speech.wav"
                                                              ELSE "uploads/silence.wav",
                     !.file_size_bytes = reqs[i].size,
                     !.status = "UPLOADED"])
    /\ response' = [op |-> "upload", code |-> 200]
    /\ reqs' = [reqs EXCEPT ![i] = Idle]
    /\ UNCHANGED <<loop, calls, config, transcript_words, word_segments, utter, live>>

\* The file is written; the row is updated and the background task added,
\* or the update finds no row and the endpoint answers 500.
UploadSave(i) ==
    /\ loop = 0
    /\ reqs[i].kind = "upload"
    /\ stored' = stored + 1
    /\ IF reqs[i].rec \in RowIds
         THEN /\ recs' = Update(reqs[i].rec,
                            [recs[reqs[i].rec] EXCEPT
                               !.file_name = reqs[i].name,
                               !.file_path = SavedPath(reqs[i].audio),
                               !.file_size_bytes = reqs[i].size,
                               !.status = "UPLOADED"])
              /\ response' = [op |-> "upload", code |-> 200]
              /\ reqs' = [reqs EXCEPT ![i] =
                            [Idle EXCEPT !.kind = "process", !.pc = "begin",
                                         !.rec = reqs[i].rec]]
         ELSE /\ response' = [op |-> "upload", code |-> 500]
              /\ reqs' = [reqs EXCEPT ![i] = Idle]
              /\ UNCHANGED recs
    /\ UNCHANGED <<loop, calls, config, transcript_words, word_segments, utter, live>>

\* ------------------------------------------------------------- transcribe
\* initiate_transcription without its status check.
TranscribeErrorAnyStatus(id) ==
    IF id \notin RowIds THEN 404
    ELSE IF recs[id].file_path = "" \/ ~Truthy(recs[id].file_name) THEN 400
    ELSE 0

\* RecordingService.initiate_transcription and the endpoint's status codes.
TranscribeError(id) ==
    IF id \notin RowIds THEN 404
    ELSE IF recs[id].status \notin {"STOPPED", "FAILED"} THEN 400
    ELSE IF recs[id].file_path = "" \/ ~Truthy(recs[id].file_name) THEN 400
    ELSE 0

TranscribeReject(id) ==
    /\ loop = 0
    /\ TranscribeError(id) # 0
    /\ response' = [op |-> "transcribe", code |-> TranscribeError(id)]
    /\ UNCHANGED <<recs, reqs, loop, stored, calls, config, transcript_words, word_segments, utter, live>>

\* Accepted: the row goes to PROCESSING and transcribe_audio is added as the
\* background task.
TranscribeAccept(i, id) ==
    /\ loop = 0
    /\ FreeSlot(i)
    /\ TranscribeError(id) = 0
    /\ recs' = Update(id, [recs[id] EXCEPT !.status = "PROCESSING"])
    /\ response' = [op |-> "transcribe", code |-> 200]
    /\ reqs' = [reqs EXCEPT ![i] =
                  [Idle EXCEPT !.kind = "transcribe", !.pc = "transcribe", !.rec = id]]
    /\ UNCHANGED <<loop, stored, calls, config, transcript_words, word_segments, utter, live>>

\* ------------------------------------------------- process_audio_complete
ProcessBegin(i) ==
    /\ loop = 0
    /\ reqs[i].kind = "process" /\ reqs[i].pc = "begin"
    /\ loop' = i
    /\ recs' = Update(reqs[i].rec, [recs[reqs[i].rec] EXCEPT !.status = "PROCESSING"])
    /\ reqs' = [reqs EXCEPT ![i].pc = "processing"]
    /\ UNCHANGED <<stored, calls, response, config, transcript_words, word_segments, utter, live>>

ProcessTranscribing(i) ==
    /\ loop = i
    /\ reqs[i].kind = "process" /\ reqs[i].pc = "processing"
    /\ recs' = Update(reqs[i].rec, [recs[reqs[i].rec] EXCEPT !.status = "TRANSCRIBING"])
    /\ reqs' = [reqs EXCEPT ![i].pc = "transcribe"]
    /\ UNCHANGED <<loop, stored, calls, response, config, transcript_words, word_segments, utter, live>>

\* A task is about to run transcribe_audio: process_audio_complete at its
\* step 2, or the task of the transcribe endpoint when the loop takes it up.
AtTranscribe(i) ==
    /\ reqs[i].pc = "transcribe"
    /\ \/ reqs[i].kind = "process" /\ loop = i
       \/ reqs[i].kind = "transcribe" /\ loop = 0

\* transcribe_audio returned to the task: process_audio_complete goes on with
\* the returned text, the transcribe endpoint's task is over.
Returned(i, r, result) ==
    /\ recs' = Update(r, result.row)
    /\ IF reqs[i].kind = "process"
         THEN /\ reqs' = [reqs EXCEPT ![i].pc = "after", ![i].ret = result.ret]
              /\ loop' = i
         ELSE /\ reqs' = [reqs EXCEPT ![i] = Idle]
              /\ loop' = 0

\* transcribe_audio on a recording it does not send to Pindo: the provider
\* calls block the loop, the results are committed.
TranscribeAudio(i, primary, secondary) ==
    LET r == reqs[i].rec
        result == transcribe_audio(recs[r], config, primary, secondary)
    IN  /\ AtTranscribe(i)
        /\ ~SentToPindo(recs[r])
        /\ Returned(i, r, result)
        /\ calls' = [calls EXCEPT ![r] = result.calls]
        /\ UNCHANGED <<stored, response, config, transcript_words, word_segments, utter, live>>

\* transcribe_audio on a KINYARWANDA recording: the file is read and posted
\* to Pindo, and the coroutine waits for the answer.
PindoPost(i) ==
    /\ AtTranscribe(i)
    /\ SentToPindo(recs[reqs[i].rec])
    /\ reqs' = [reqs EXCEPT ![i].pc = "pindo",
                             ![i].audio = FileContent(recs[reqs[i].rec].file_path)]
    /\ calls' = [calls EXCEPT ![reqs[i].rec] = <<>>]
    /\ loop' = 0
    /\ UNCHANGED <<recs, stored, response, config, transcript_words, word_segments, utter, live>>

PindoAnswer(i, outcome, translation) ==
    LET r == reqs[i].rec
        result == transcribe_kinyarwanda(recs[r], reqs[i].audio, config, outcome, translation)
    IN  /\ loop = 0
        /\ reqs[i].pc = "pindo"
        /\ Returned(i, r, result)
        /\ calls' = [calls EXCEPT ![r] = Append(calls[r], <<"pindo", outcome>>)]
        /\ UNCHANGED <<stored, response, config, transcript_words, word_segments, utter, live>>

\* Step 3 of process_audio_complete: DIARIZING, when diarization is enabled
\* and a transcript came back.
ProcessDiarize(i) ==
    /\ loop = i
    /\ reqs[i].kind = "process" /\ reqs[i].pc = "after"
    /\ Truthy(reqs[i].ret) /\ config.ENABLE_SPEAKER_DIARIZATION
    /\ recs' = Update(reqs[i].rec, [recs[reqs[i].rec] EXCEPT !.status = "DIARIZING"])
    /\ reqs' = [reqs EXCEPT ![i].pc = "diarizing"]
    /\ UNCHANGED <<loop, stored, calls, response, config, transcript_words, word_segments, utter, live>>

\* The final status with the else branch leaving the status as it is.
FinalStatusUnset(transcript) == IF Truthy(transcript) THEN "COMPLETED" ELSE "TRANSCRIBING"

\* The final status of process_audio_complete: COMPLETED when a transcript
\* came back, FAILED (with no processing_error written) when not.
FinalStatus(transcript) == IF Truthy(transcript) THEN "COMPLETED" ELSE "FAILED"

ProcessFinish(i) ==
    /\ loop = i
    /\ reqs[i].kind = "process"
    /\ \/ reqs[i].pc = "diarizing"
       \/ reqs[i].pc = "after" /\ ~(Truthy(reqs[i].ret) /\ config.ENABLE_SPEAKER_DIARIZATION)
    /\ recs' = Update(reqs[i].rec,
                  [recs[reqs[i].rec] EXCEPT !.status = FinalStatus(reqs[i].ret)])
    /\ reqs' = [reqs EXCEPT ![i] = Idle]
    /\ loop' = 0
    /\ UNCHANGED <<stored, calls, response, config, transcript_words, word_segments, utter, live>>

\* ------------------------------------------------------------------- spec
\* Requests the endpoints accept.
Accept ==
    \/ \E i \in Slots, s \in SessionIds, l \in LanguageEnum : StartCheck(i, s, l)
    \/ \E id \in RowIds : StopRecording(id)
    \/ \E i \in Slots, id \in RowIds \cup {MissingId}, a \in Audio, n \in Filenames, z \in Sizes :
          UploadValidate(i, id, a, n, z)
    \/ \E i \in Slots, id \in RowIds : TranscribeAccept(i, id)

\* Requests the endpoints answer with an error: nothing but the response changes.
Reject ==
    \/ \E s \in SessionIds, l \in LanguageEnum : StartReject(s, l)
    \/ \E id \in RowIds \cup {MissingId} : StopReject(id)
    \/ \E id \in RowIds \cup {MissingId}, n \in Filenames, z \in Sizes : UploadReject(id, n, z)
    \/ \E id \in RowIds \cup {MissingId} : TranscribeReject(id)

\* The steps of the requests and tasks in flight.
Step ==
    \/ \E i \in Slots : StartCreate(i)
    \/ \E i \in Slots : UploadSave(i)
    \/ \E i \in Slots : ProcessBegin(i)
    \/ \E i \in Slots : ProcessTranscribing(i)
    \/ \E i \in Slots, p \in AssemblyOutcomes, q \in OpenAIOutcomes : TranscribeAudio(i, p, q)
    \/ \E i \in Slots : ProcessDiarize(i)
    \/ \E i \in Slots : ProcessFinish(i)

\* The steps of transcribe_audio on a KINYARWANDA recording.
PindoStep ==
    \/ \E i \in Slots : PindoPost(i)
    \/ \E i \in Slots, o \in PindoOutcomes, t \in TranslateOutcomes : PindoAnswer(i, o, t)

\* The service driven through its endpoints from an empty table.  Requests
\* arrive at any time and interleave with each other and with the background
\* tasks.  A rejected request leaves the table and the tasks as they are, so
\* the reachable tables are those of the accepted requests.  Every row is
\* one start_recording created, so none is sent to Pindo.
Next == Accept \/ Step

Spec == Init /\ [][Next]_vars

\* The same service over a table that holds a KINYARWANDA row.
SeededNext == Accept \/ Step \/ PindoStep

SeededSpec == SeededInit /\ [][SeededNext]_vars

\* Requests made one at a time, over either table: a request arrives when no
\* start or upload handler is in flight and the event loop is free.
\* Background tasks that have not begun, or wait for Pindo, are still there.
NoHandler == loop = 0 /\ \A i \in Slots : reqs[i].kind \notin {"start", "upload"}

SeqNext == (NoHandler /\ (Accept \/ Reject)) \/ Step \/ PindoStep

SeqSpec == (Init \/ SeededInit) /\ [][SeqNext]_vars

\* The server process is killed while a background task is in flight: the
\* task is gone with it, the table keeps what was committed.
TaskDies(i) ==
    /\ reqs[i].kind \in {"process", "transcribe"}
    /\ reqs' = [reqs EXCEPT ![i] = Idle]
    /\ loop' = IF loop = i THEN 0 ELSE loop
    /\ UNCHANGED <<recs, stored, calls, response, config, transcript_words, word_segments, utter, live>>

CrashNext == Next \/ \E i \in Slots : TaskDies(i)

CrashSpec == Init /\ [][CrashNext]_vars

\* The segment synthesis of _transcribe_with_assemblyai on its own, over
\* transcripts of up to MaxWords words: n words of the same duration, the
\* same gap between one word's end and the next word's start.
MaxWords == 52
WordDurations == {100, 250, 6000}
WordGaps == {0, 50}

UniformWords(n, duration, gap) ==
    [k \in 1..n |-> [text |-> ToString(k),
                     start |-> (k - 1) * (duration + gap),
                     end |-> (k - 1) * (duration + gap) + duration]]

WordInputs == {UniformWords(n, d, g) : n \in 0..MaxWords, d \in WordDurations, g \in WordGaps}

WordInit ==
    /\ recs = <<>>
    /\ reqs = [i \in Slots |-> Idle]
    /\ loop = 0
    /\ stored = 0
    /\ calls = <<>>
    /\ response = [op |-> "none", code |-> 0]
    /\ config \in {c \in Settings : c.use_assemblyai /\ ~c.ENABLE_SPEAKER_DIARIZATION}
    /\ transcript_words \in WordInputs
    /\ word_segments = <<>>
    /\ NoUtterances
    /\ NoLiveSessions

\* "if transcript.words": the segments are created from the words.
Synthesize ==
    /\ transcript_words # <<>>
    /\ word_segments = <<>>
    /\ word_segments' = WordSegments(transcript_words)
    /\ UNCHANGED <<recs, reqs, loop, stored, calls, response, config, transcript_words, utter, live>>

WordNext == Synthesize

WordSpec == WordInit /\ [][WordNext]_vars

\* The segments _transcribe_with_assemblyai builds from utterances, on its
\* own, over transcripts of up to MaxUtterances utterances.  Diarization is
\* enabled: utterances are only asked for (speaker_labels) when it is.
MaxUtterances == 3
SpeakerLabels == {"A", "B", "C"}
UtteranceSpans == {<<0, 10000>>, <<2000, 8000>>, <<10000, 15000>>}

Utterance(label, span) ==
    [speaker |-> label, text |-> "t", start |-> span[1], end |-> span[2], confidence |-> 90]

UtteranceInputs ==
    UNION {[1..n -> {Utterance(l, sp) : l \in SpeakerLabels, sp \in UtteranceSpans}] :
              n \in 0..MaxUtterances}

UtteranceInit ==
    /\ recs = <<>>
    /\ reqs = [i \in Slots |-> Idle]
    /\ loop = 0
    /\ stored = 0
    /\ calls = <<>>
    /\ response = [op |-> "none", code |-> 0]
    /\ config \in {c \in Settings : c.use_assemblyai /\ c.ENABLE_SPEAKER_DIARIZATION}
    /\ transcript_words = <<>>
    /\ word_segments = <<>>
    /\ transcript_utterances \in UtteranceInputs
    /\ utterance_segments = <<>>
    /\ NoLiveSessions

\* "if settings.ENABLE_SPEAKER_DIARIZATION and transcript.utterances": one
\* segment is appended per utterance.
BuildSegments ==
    /\ config.ENABLE_SPEAKER_DIARIZATION
    /\ transcript_utterances # <<>>
    /\ utterance_segments = <<>>
    /\ utterance_segments' = UtteranceSegments(transcript_utterances)
    /\ UNCHANGED <<recs, reqs, loop, stored, calls, response, config, transcript_words,
                   word_segments, transcript_utterances, live>>

UtteranceNext == BuildSegments

UtteranceSpec == UtteranceInit /\ [][UtteranceNext]_vars

\* ------------------------------------------------ LiveTranscriptionService
\* The live transcription service on its own: rooms, sessions that hold up
\* to MaxSegments segments between them, up to MaxCallbacks callbacks per room.  No method
\* suspends between its check of active_sessions and its writes, so each
\* call is one step.
MaxSegments == 3
MaxCallbacks == 1
Rooms == {"consultation_1", "consultation_2"}
LiveSessionIds == {"1"}
Callbacks == {"on_segment"}

\* participant_identity: None, or a text in parts.
Identities == {None, <<"X">>, <<"Y">>, <<"Z">>, <<"Doctor", "W">>}

\* str.lower() on a part of an identity.
Lower(part) == IF part = "Doctor" THEN "doctor" ELSE part

\* "word in participant_identity.lower()"
Contains(identity, word) == \E k \in DOMAIN identity : Lower(identity[k]) = word

\* The number of different speakers in the segments so far.
SpeakerCount(session) ==
    Cardinality({session.transcript_segments[k].speaker :
                    k \in DOMAIN session.transcript_segments})

\* LiveTranscriptionService._identify_speaker
identify_speaker(participant_identity, session) ==
    IF ~session.diarization_enabled THEN "speaker"
    ELSE IF Truthy(participant_identity)
            /\ (Contains(participant_identity, "practitioner")
                  \/ Contains(participant_identity, "doctor"))
    THEN "practitioner"
    ELSE IF Truthy(participant_identity) /\ Contains(participant_identity, "patient")
    THEN "patient"
    ELSE IF SpeakerCount(session) = 0 THEN "practitioner" ELSE "patient"

\* The session start_live_transcription creates.
TranscriptionSession(room_name, session_id, enable_diarization) ==
    [room_name |-> room_name,
     session_id |-> session_id,
     transcript_segments |-> <<>>,
     speakers |-> [speaker_0 |-> "practitioner", speaker_1 |-> "patient"],
     speaker_mapping |-> EmptyDict,
     active |-> TRUE,
     diarization_enabled |-> enable_diarization]

\* The segment _simulate_transcription creates.
LiveSegment(participant_identity, session) ==
    [speaker |-> identify_speaker(participant_identity, session),
     participant_identity |-> participant_identity,
     text |-> <<"[Simulated speech from ">>
              \o (IF Truthy(participant_identity) THEN participant_identity ELSE <<"unknown">>)
              \o <<"]">>,
     confidence |-> 95,
     is_final |-> TRUE]

\* The segments held by the sessions of the given rooms.
RECURSIVE SegmentsHeld(_)
SegmentsHeld(rooms) ==
    IF rooms = {} THEN 0
    ELSE LET room == CHOOSE r \in rooms : TRUE
         IN  Len(active_sessions[room].transcript_segments) + SegmentsHeld(rooms \ {room})

LiveResult(op, room_name, outcome) == [op |-> op, room |-> room_name, outcome |-> outcome]

LiveUnchanged ==
    UNCHANGED <<recs, reqs, loop, stored, calls, response, config, transcript_words,
                word_segments, utter>>

LiveInit ==
    /\ recs = <<>>
    /\ reqs = [i \in Slots |-> Idle]
    /\ loop = 0
    /\ stored = 0
    /\ calls = <<>>
    /\ response = [op |-> "none", code |-> 0]
    /\ config \in {c \in Settings : c.use_assemblyai /\ c.openai_client
                                       /\ c.ENABLE_SPEAKER_DIARIZATION}
    /\ transcript_words = <<>>
    /\ word_segments = <<>>
    /\ NoUtterances
    /\ NoLiveSessions

\* start_live_transcription: a new session and an empty callback list are
\* stored under the room, whatever was there.
StartLive(room_name, session_id, enable_diarization) ==
    /\ active_sessions' = Put(active_sessions, room_name,
                               TranscriptionSession(room_name, session_id, enable_diarization))
    /\ transcription_callbacks' = Put(transcription_callbacks, room_name, <<>>)
    /\ live_result' = LiveResult("start", room_name, "ok")
    /\ LiveUnchanged

\* add_transcription_callback: nothing happens for a room without callbacks.
AddCallback(room_name, callback) ==
    /\ room_name \in DOMAIN transcription_callbacks
         => Len(transcription_callbacks[room_name]) < MaxCallbacks
    /\ transcription_callbacks' =
         IF room_name \in DOMAIN transcription_callbacks
         THEN Put(transcription_callbacks, room_name,
                  Append(transcription_callbacks[room_name], callback))
         ELSE transcription_callbacks
    /\ live_result' = LiveResult("callback", room_name, "none")
    /\ UNCHANGED active_sessions
    /\ LiveUnchanged

\* process_audio_chunk: returns at once for a room without a session;
\* otherwise _simulate_transcription appends a segment and awaits the
\* callbacks, whose exceptions are logged.  Nothing is raised either way.
ProcessAudioChunk(room_name, participant_identity) ==
    /\ room_name \in DOMAIN active_sessions
         => SegmentsHeld(DOMAIN active_sessions) < MaxSegments
    /\ active_sessions' =
         IF room_name \in DOMAIN active_sessions
         THEN LET session == active_sessions[room_name]
              IN  Put(active_sessions, room_name,
                      [session EXCEPT !.transcript_segments =
                          Append(@, LiveSegment(participant_identity, session))])
         ELSE active_sessions
    /\ live_result' = LiveResult("chunk", room_name, "none")
    /\ UNCHANGED transcription_callbacks
    /\ LiveUnchanged

\* get_live_transcript
GetLiveTranscript(room_name) ==
    /\ live_result' = LiveResult("get", room_name,
                                  IF room_name \in DOMAIN active_sessions
                                  THEN "ok" ELSE "ValueError")
    /\ UNCHANGED <<active_sessions, transcription_callbacks>>
    /\ LiveUnchanged

\* stop_live_transcription with the clean up left out: the session is
\* marked inactive and stays.
StopLiveKeepingSession(room_name) ==
    /\ active_sessions' =
         IF room_name \in DOMAIN active_sessions
         THEN Put(active_sessions, room_name,
                  [active_sessions[room_name] EXCEPT !.active = FALSE])
         ELSE active_sessions
    /\ live_result' = LiveResult("stop", room_name,
                                  IF room_name \in DOMAIN active_sessions
                                  THEN "ok" ELSE "ValueError")
    /\ UNCHANGED transcription_callbacks
    /\ LiveUnchanged

\* stop_live_transcription: ValueError for a room without a session;
\* otherwise the session and the room's callbacks are deleted.
StopLive(room_name) ==
    /\ active_sessions' =
         IF room_name \in DOMAIN active_sessions
         THEN Del(active_sessions, room_name)
         ELSE active_sessions
    /\ transcription_callbacks' =
         IF room_name \in DOMAIN active_sessions
         THEN Del(transcription_callbacks, room_name)
         ELSE transcription_callbacks
    /\ live_result' = LiveResult("stop", room_name,
                                  IF room_name \in DOMAIN active_sessions
                                  THEN "ok" ELSE "ValueError")
    /\ LiveUnchanged

LiveNext ==
    \/ \E room \in Rooms, s \in LiveSessionIds, e \in BOOLEAN : StartLive(room, s, e)
    \/ \E room \in Rooms, c \in Callbacks : AddCallback(room, c)
    \/ \E room \in Rooms, p \in Identities : ProcessAudioChunk(room, p)
    \/ \E room \in Rooms : GetLiveTranscript(room)
    \/ \E room \in Rooms : StopLive(room)

LiveSpec == LiveInit /\ [][LiveNext]_vars

\* The event loop runs every task that is ready, and every provider call
\* returns or raises: the steps of the task in a slot are taken when they
\* stay possible.
TaskStep(i) ==
    \/ ProcessBegin(i)
    \/ ProcessTranscribing(i)
    \/ \E p \in AssemblyOutcomes, q \in OpenAIOutcomes : TranscribeAudio(i, p, q)
    \/ PindoPost(i)
    \/ \E o \in PindoOutcomes, t \in TranslateOutcomes : PindoAnswer(i, o, t)
    \/ ProcessDiarize(i)
    \/ ProcessFinish(i)

FairSpec == SeededSpec /\ \A i \in Slots : WF_vars(TaskStep(i))

\* ================================================================ claims
StandardLanguages == {"ENGLISH", "FRENCH", "SWAHILI"}

\* The background tasks and upload handlers in flight for a recording.
InFlight(r) == {i \in Slots : reqs[i].kind \in {"upload", "process", "transcribe"} /\ reqs[i].rec = r}

C2_OneActiveRecording ==
    \A s \in SessionIds :
        Cardinality({r \in RowIds : recs[r].session_id = s /\ recs[r].status = "RECORDING"}) <= 1

\* A session with an earlier recording that was stopped and a second one
\* started after it.
C2_Witness ==
    \E r1, r2 \in RowIds :
        /\ r1 < r2
        /\ recs[r1].session_id = recs[r2].session_id
        /\ recs[r1].status = "STOPPED"
        /\ recs[r2].status = "RECORDING"

PindoFailed(call, file_content) == call[2] # "ok" \/ Strip(PindoText(file_content)) = <<>>

C4_KinyarwandaStep ==
    \A r \in RowIds :
        recs[r].language = "KINYARWANDA" =>
            /\ recs'[r].language = "KINYARWANDA"
            /\ \A k \in DOMAIN calls'[r] : calls'[r][k][1] = "pindo"
            /\ \A i \in Slots :
                 ( /\ reqs[i].rec = r
                   /\ reqs[i].pc = "pindo"
                   /\ reqs'[i].pc # "pindo"
                   /\ calls'[r] # calls[r]
                   /\ PindoFailed(calls'[r][Len(calls'[r])], reqs[i].audio) )
                 => recs'[r].status = "FAILED" /\ Truthy(recs'[r].processing_error)
            /\ \A i \in Slots :
                 ( /\ reqs[i].rec = r
                   /\ reqs[i].kind = "process"
                   /\ reqs[i].pc = "after"
                   /\ ~Truthy(reqs[i].ret)
                   /\ reqs'[i].kind = "idle" )
                 => recs'[r].status = "FAILED" /\ Truthy(recs'[r].processing_error)

C4_KinyarwandaFailureTerminal == [][C4_KinyarwandaStep]_vars

\* A KINYARWANDA recording whose background run ended after a failed Pindo
\* call.
C4_Witness ==
    \E r \in RowIds :
        /\ recs[r].language = "KINYARWANDA"
        /\ recs[r].status = "FAILED"
        /\ Truthy(recs[r].processing_error)
        /\ calls[r] # <<>>
        /\ calls[r][Len(calls[r])][2] # "ok"
        /\ InFlight(r) = {}

\* C5: at no time are two background tasks running for the same Recording.
Running(i) ==
    \/ reqs[i].kind = "process" /\ reqs[i].pc # "begin"
    \/ reqs[i].kind = "transcribe" /\ reqs[i].pc = "pindo"

UploadedRow(row) ==
    [Recording(RecordingCreate(row.session_id)) EXCEPT
        !.language = row.language,
        !.file_name = row.file_name,
        !.file_path = row.file_path,
        !.file_size_bytes = row.file_size_bytes,
        !.status = "UPLOADED"]

FirstRun(row, translation) ==
    LET fresh == UploadedRow(row)
        result == IF row.language = "KINYARWANDA"
                  THEN transcribe_kinyarwanda(fresh, FileContent(row.file_path), config,
                                              "ok", translation)
                  ELSE transcribe_audio(fresh, config, "ok", "ok")
    IN  [result.row EXCEPT !.status = FinalStatus(result.ret)]

C7_RetryGivesFirstRunResult ==
    \A r \in RowIds :
        ( /\ recs[r].status = "COMPLETED"
          /\ InFlight(r) = {}
          /\ Truthy(recs[r].transcript) )
        => /\ \E t \in TranslateOutcomes : recs[r] = FirstRun(recs[r], t)
           /\ TranscribeError(r) # 0

\* The only recording, COMPLETED by the task of an accepted transcribe
\* request (the last response sent), with nothing in flight.
C7_Witness ==
    /\ Len(recs) = 1
    /\ response = [op |-> "transcribe", code |-> 200]
    /\ \A i \in Slots : IsIdle(i)
    /\ recs[1].status = "COMPLETED"
    /\ Truthy(recs[1].transcript)

C9_LanguageStep ==
    /\ \A i \in Slots :
         (reqs[i].kind = "start" /\ reqs'[i].kind = "idle" /\ Len(recs') = Len(recs) + 1)
         => recs'[Len(recs')].language = reqs[i].language
    /\ \A r \in RowIds : recs'[r].language = recs[r].language

C9_LanguageFromStart == [][C9_LanguageStep]_vars

StartRefused(s) ==
    \/ s \notin DOMAIN SessionTable
    \/ SessionTable[s] # "active"
    \/ \E r \in RowIds : recs[r].session_id = s /\ recs[r].status = "RECORDING"

C11_StartStep ==
    /\ \A s \in SessionIds : StartRefused(s) <=> StartError(s) \in {400, 404}
    /\ \A s \in SessionIds : StartRefused(s) <=> StartError(s) # 0
    /\ \A s \in SessionIds :
         StartRefused(s) => \A r \in (Len(recs) + 1)..Len(recs') : recs'[r].session_id # s
    /\ (response' # response /\ response'.op = "start" /\ response'.code # 201)
         => recs' = recs /\ reqs' = reqs
    /\ \A i \in Slots :
         (reqs[i].kind = "start" /\ reqs'[i].kind # "start")
         => /\ Len(recs') = Len(recs) + 1
            /\ recs'[Len(recs')].status = "RECORDING"
            /\ recs'[Len(recs')].session_id = reqs[i].session
            /\ \A r \in RowIds : recs'[r] = recs[r]
            /\ response' = [op |-> "start", code |-> 201]
    /\ Len(recs') # Len(recs) => \E i \in Slots : reqs[i].kind = "start" /\ reqs'[i].kind = "idle"

C11_StartContract == [][C11_StartStep]_vars

\* A start was accepted for a session and a later start was refused while
\* that recording is still RECORDING.
C11_Witness ==
    /\ response = [op |-> "start", code |-> 400]
    /\ \E r \in RowIds :
         /\ SessionTable[recs[r].session_id] = "active"
         /\ recs[r].status = "RECORDING"
         /\ recs[r].language = "ENGLISH"

\* C12: stop succeeds only on a Recording in RECORDING, which it sets to
\* STOPPED; on a Recording in any other status it fails and leaves the
\* Recording unchanged.
C12_StopStep ==
    /\ \A r \in RowIds : recs[r].status # "RECORDING" <=> StopError(r) = 400
    /\ \A r \in RowIds : recs[r].status = "RECORDING" <=> StopError(r) = 0
    /\ \A r \in RowIds :
         (recs'[r].status = "STOPPED" /\ recs[r].status # "STOPPED")
         => /\ recs[r].status = "RECORDING"
            /\ recs'[r] = [recs[r] EXCEPT !.status = "STOPPED"]
            /\ response' = [op |-> "stop", code |-> 200]
    /\ (response' # response /\ response'.op = "stop" /\ response'.code = 200)
         => \E r \in RowIds : recs[r].status = "RECORDING" /\ recs'[r].status = "STOPPED"
    /\ (response' # response /\ response'.op = "stop" /\ response'.code # 200)
         => recs' = recs /\ reqs' = reqs

C12_StopContract == [][C12_StopStep]_vars

\* A recording was stopped and a second stop of it was refused.
C12_Witness ==
    /\ response = [op |-> "stop", code |-> 400]
    /\ \E r \in RowIds : recs[r].status = "STOPPED"

\* C13: an upload that is refused (Recording not in RECORDING or STOPPED,
\* unsupported extension, size above the maximum) changes no row, stores no
\* file and starts no background task; only uploads that are not refused
\* get as far as storing a file.
UploadRefused(r, name, size) ==
    \/ recs[r].status \notin {"RECORDING", "STOPPED"}
    \/ name[Len(name)] \notin ALLOWED_AUDIO_EXTENSIONS
    \/ size > MAX_FILE_SIZE

C13_UploadRejectStep ==
    /\ \A r \in RowIds, n \in Filenames, z \in Sizes :
         UploadRefused(r, n, z) <=> UploadError(r, n, z) \in {400, 413}
    /\ (response' # response /\ response'.op = "upload" /\ response'.code \in {400, 413})
         => recs' = recs /\ stored' = stored /\ reqs' = reqs
    /\ \A i \in Slots :
         (reqs'[i].kind = "upload" /\ reqs[i].kind # "upload" /\ reqs'[i].rec \in RowIds)
         => ~UploadRefused(reqs'[i].rec, reqs'[i].name, reqs'[i].size)
    /\ stored' # stored
         => \E i \in Slots :
              /\ reqs[i].kind = "upload"
              /\ reqs[i].rec \in RowIds => ~UploadRefused(reqs[i].rec, reqs[i].name, reqs[i].size)
    /\ \A r \in RowIds :
         (recs'[r].status = "UPLOADED" /\ recs[r].status # "UPLOADED")
         => recs[r].status \in {"RECORDING", "STOPPED"}

ProcessTasks(rq, r) == {i \in Slots : rq[i].kind = "process" /\ rq[i].rec = r}

C14_UploadStep ==
    \A i \in Slots :
        (reqs[i].kind = "upload" /\ reqs'[i].kind # "upload" /\ reqs[i].rec \in RowIds)
        => LET r == reqs[i].rec
           IN  /\ recs'[r].file_name = reqs[i].name
               /\ recs'[r].file_path # ""
               /\ FileContent(recs'[r].file_path) = reqs[i].audio
               /\ recs'[r].file_size_bytes = reqs[i].size
               /\ recs'[r].status = "UPLOADED"
               /\ recs' = [recs EXCEPT ![r] = recs'[r]]
               /\ stored' = stored + 1
               /\ response' = [op |-> "upload", code |-> 200]
               /\ Cardinality(ProcessTasks(reqs', r)) = Cardinality(ProcessTasks(reqs, r)) + 1
               /\ \A q \in RowIds \ {r} : ProcessTasks(reqs', q) = ProcessTasks(reqs, q)

C15_UploadStep ==
    \A i \in Slots :
        (reqs[i].kind = "upload" /\ reqs'[i].kind # "upload" /\ reqs[i].rec \notin RowIds)
        => /\ response' = [op |-> "upload", code |-> 404]
           /\ stored' = stored
           /\ reqs'[i].kind # "process"

C15_MissingUploadNotFound == [][C15_UploadStep]_vars

\* C16: when two start requests for the same active session interleave, both
\* checking for an active recording before either creates one, the session
\* still has at most one Recording in RECORDING.
C16_RacingStartsOneActive ==
    \A r1, r2 \in RowIds :
        (recs[r1].session_id = recs[r2].session_id
            /\ recs[r1].status = "RECORDING" /\ recs[r2].status = "RECORDING")
        => r1 = r2

\* C17: every background run that an upload started ends, and the step that
\* ends it leaves the Recording in COMPLETED or FAILED.
C17_EndStep ==
    \A i \in Slots :
        (reqs[i].kind = "process" /\ reqs'[i].kind # "process")
        => recs'[reqs[i].rec].status \in {"COMPLETED", "FAILED"}

C17_RunTerminates ==
    /\ \A i \in Slots : (reqs[i].kind = "process") ~> (reqs[i].kind # "process")
    /\ [][C17_EndStep]_vars

\* An uploaded recording whose run has ended, with nothing in flight.
C17_Witness ==
    /\ \A i \in Slots : IsIdle(i)
    /\ response = [op |-> "upload", code |-> 200]
    /\ \E r \in RowIds :
         /\ recs[r].status \in {"COMPLETED", "FAILED"}
         /\ recs[r].file_path # ""

\* C18: when Pindo answers with a text T for a KINYARWANDA Recording and
\* the translation succeeds with T', the Recording is COMPLETED, its
\* transcript holds T' and then T, additional_data.original_text is T and
\* additional_data.translated_text is T'.
ProviderText(i) == Strip(PindoText(reqs[i].audio))

Translated(T) == IF T = <<"muraho">> THEN <<"hello">> ELSE <<>>

\* s is a run of consecutive parts of t, starting at part k.
OccursAt(s, t, k) == k + Len(s) - 1 <= Len(t) /\ SubSeq(t, k, k + Len(s) - 1) = s

C18_DualLanguageStep ==
    \A i \in Slots :
        ( /\ PindoAnswer(i, "ok", "ok")
          /\ config.openai_client
          /\ ProviderText(i) # <<>> )
        => LET r == reqs[i].rec
               T == ProviderText(i)
               row == recs'[r]
           IN  /\ recs[r].language = "KINYARWANDA"
               /\ Translated(T) # <<>>
               /\ row.status = "COMPLETED"
               /\ row.processing_error = None
               /\ row.additional_data.original_text = T
               /\ row.additional_data.translated_text = Translated(T)
               /\ \E k1, k2 \in DOMAIN row.transcript :
                    /\ k1 < k2
                    /\ OccursAt(Translated(T), row.transcript, k1)
                    /\ OccursAt(T, row.transcript, k2)

C18_DualLanguageResult == [][C18_DualLanguageStep]_vars

\* A KINYARWANDA recording completed with a translated text, nothing in
\* flight for it.
C18_Witness ==
    \E r \in RowIds :
        /\ recs[r].language = "KINYARWANDA"
        /\ recs[r].status = "COMPLETED"
        /\ InFlight(r) = {}
        /\ recs[r].additional_data # <<>>
        /\ recs[r].additional_data.translated_text = <<"hello">>
        /\ recs[r].additional_data.original_text = <<"muraho">>

\* C19: when the translator is not configured or the translation call
\* raises, the Recording is not failed: it is COMPLETED, and the stored
\* translated text is the original text behind a marker that says the
\* translation is missing.
TranslationMarkers == {"[Translation unavailable] ", "[Translation failed] "}

C19_TranslationFailureStep ==
    \A i \in Slots, t \in TranslateOutcomes :
        ( /\ PindoAnswer(i, "ok", t)
          /\ ~config.openai_client \/ t = "raise"
          /\ ProviderText(i) # <<>> )
        => LET r == reqs[i].rec
               T == ProviderText(i)
               row == recs'[r]
           IN  /\ row.status = "COMPLETED"
               /\ row.processing_error = None
               /\ row.additional_data.original_text = T
               /\ \E m \in TranslationMarkers : row.additional_data.translated_text = <<m>> \o T
               /\ Truthy(row.transcript)
               /\ reqs'[i].kind = "process" => Truthy(reqs'[i].ret)

C19_TranslationFailureCompletes == [][C19_TranslationFailureStep]_vars

\* A KINYARWANDA recording completed with the marker in place of the
\* translation, nothing in flight for it.
C19_Witness ==
    \E r \in RowIds :
        /\ recs[r].language = "KINYARWANDA"
        /\ recs[r].status = "COMPLETED"
        /\ InFlight(r) = {}
        /\ recs[r].additional_data # <<>>
        /\ recs[r].additional_data.translated_text[1] \in TranslationMarkers

\* C20: every segment synthesized from words has at most 50 words and spans
\* at most 10 seconds from its first word's start to its last word's end.
SpanMs(segment) == segment.end_time[1] - segment.start_time[1]

C20_SegmentsBounded ==
    \A k \in DOMAIN word_segments :
        /\ Len(word_segments[k].text) <= 50
        /\ SpanMs(word_segments[k]) * 1000 <= 10 * 1000 * word_segments[k].end_time[2]

\* C21: each segment has the speaker of the label with the largest
\* accumulated overlap over the provider's turns, a tie going to the label
\* met first in turn order, and UNKNOWN when no turn overlaps it.
Min(a, b) == IF a < b THEN a ELSE b

Max(a, b) == IF a > b THEN a ELSE b

Overlap(segment, turn) ==
    Max(0, Min(segment.end_time[1], turn.end) - Max(segment.start_time[1], turn.start))

RECURSIVE AccumulatedFrom(_, _, _, _)
AccumulatedFrom(label, segment, turns, k) ==
    IF k > Len(turns) THEN 0
    ELSE (IF turns[k].speaker = label THEN Overlap(segment, turns[k]) ELSE 0)
         + AccumulatedFrom(label, segment, turns, k + 1)

Accumulated(label, segment, turns) == AccumulatedFrom(label, segment, turns, 1)

FirstTurn(label, turns) ==
    CHOOSE k \in DOMAIN turns :
        turns[k].speaker = label /\ \A j \in 1..(k - 1) : turns[j].speaker # label

Dominant(label, segment, turns) ==
    /\ Accumulated(label, segment, turns) > 0
    /\ \A k \in DOMAIN turns :
         LET other == turns[k].speaker
         IN  \/ Accumulated(other, segment, turns) < Accumulated(label, segment, turns)
             \/ /\ Accumulated(other, segment, turns) = Accumulated(label, segment, turns)
                /\ FirstTurn(label, turns) <= FirstTurn(other, turns)

C21_DominantOverlapSpeaker ==
    \A k \in DOMAIN utterance_segments :
        LET segment == utterance_segments[k]
            turns == transcript_utterances
        IN  /\ \A j \in DOMAIN turns :
                 Dominant(turns[j].speaker, segment, turns)
                 => segment.speaker = UtteranceSpeaker(turns[j].speaker)
            /\ (\A j \in DOMAIN turns : Overlap(segment, turns[j]) = 0)
                 => segment.speaker = "unknown"

\* C26: with native speaker labels, one segment is stored per utterance, in
\* utterance order, with PRACTITIONER for label "A", PATIENT for "B" and
\* UNKNOWN for every other label.
C26_UtteranceLabelMapping ==
    utterance_segments # <<>> =>
        /\ Len(utterance_segments) = Len(transcript_utterances)
        /\ \A k \in DOMAIN utterance_segments :
             LET u == transcript_utterances[k]
                 segment == utterance_segments[k]
             IN  /\ u.speaker = "A" => segment.speaker = "practitioner"
                 /\ u.speaker = "B" => segment.speaker = "patient"
                 /\ u.speaker \notin {"A", "B"} => segment.speaker = "unknown"
                 /\ segment.text = <<u.text>>
                 /\ segment.start_time[1] = u.start /\ segment.end_time[1] = u.end
                 /\ segment.confidence = u.confidence

\* Three utterances of three different labels and the three segments built
\* from them.
C26_Witness ==
    /\ Len(utterance_segments) = 3
    /\ {transcript_utterances[k].speaker : k \in 1..Len(transcript_utterances)} = SpeakerLabels
    /\ {utterance_segments[k].speaker : k \in 1..3} = {"practitioner", "patient", "unknown"}

\* C29: the segments synthesized from raw words partition the word
\* sequence: every segment is non-empty, the segments' words in order are
\* the input words, a segment starts at its first word's start and ends at
\* its last word's end, and the segments are chronological with
\* end_time >= start_time.
RECURSIVE SegmentWordsBefore(_, _)
SegmentWordsBefore(segments, k) ==
    IF k <= 1 THEN 0
    ELSE SegmentWordsBefore(segments, k - 1) + Len(segments[k - 1].text)

RECURSIVE ConcatenatedText(_, _)
ConcatenatedText(segments, k) ==
    IF k > Len(segments) THEN <<>>
    ELSE segments[k].text \o ConcatenatedText(segments, k + 1)

C29_WordSegmentsPartition ==
    (transcript_words # <<>> /\ word_segments # <<>>) =>
        /\ ConcatenatedText(word_segments, 1)
             = [k \in 1..Len(transcript_words) |-> transcript_words[k].text]
        /\ \A k \in DOMAIN word_segments :
             LET segment == word_segments[k]
                 first == SegmentWordsBefore(word_segments, k) + 1
                 last == SegmentWordsBefore(word_segments, k) + Len(segment.text)
             IN  /\ segment.text # <<>>
                 /\ last <= Len(transcript_words)
                 /\ segment.start_time = Seconds(transcript_words[first].start)
                 /\ segment.end_time = Seconds(transcript_words[last].end)
                 /\ segment.end_time[1] >= segment.start_time[1]
                 /\ k > 1 => word_segments[k - 1].end_time[1] <= segment.start_time[1]

\* 52 short words: one segment closed by the 51st word and a second one
\* holding the remaining word.
C29_Witness ==
    /\ Len(transcript_words) = 52
    /\ Len(word_segments) = 2
    /\ Len(word_segments[1].text) = 51
    /\ word_segments[2].text = <<transcript_words[52].text>>

\* C23: a background run that finds its Recording in a status that is
\* neither UPLOADED nor FAILED refuses to reprocess it and changes nothing.
C23_RunEntryStep ==
    \A i \in Slots :
        ( /\ reqs[i].kind = "process"
          /\ reqs[i].pc = "begin"
          /\ reqs'[i] # reqs[i]
          /\ recs[reqs[i].rec].status \notin {"UPLOADED", "FAILED"} )
        => recs' = recs

C25_ProviderByLanguage ==
    \A r \in RowIds :
        \A k \in DOMAIN calls[r] :
            (calls[r][k][1] = "pindo") <=> (recs[r].language = "KINYARWANDA")

\* A KINYARWANDA recording Pindo was called for, next to an ENGLISH
\* recording another provider was called for.
C25_Witness ==
    \E r1, r2 \in RowIds :
        /\ recs[r1].language = "KINYARWANDA"
        /\ recs[r2].language \in StandardLanguages
        /\ calls[r1] # <<>> /\ calls[r1][1][1] = "pindo"
        /\ calls[r2] # <<>> /\ calls[r2][1][1] \in {"assemblyai", "openai"}

\* C27: a transcribe (retry) request is accepted only for a FAILED
\* Recording with a stored audio file; for every other status it is
\* rejected and nothing but the response changes.  A STOPPED Recording never
\* has a stored file.
StoredFile(row) == row.file_path # "" /\ Truthy(row.file_name)

C27_TranscribeStep ==
    /\ \A i \in Slots, id \in RowIds :
         (reqs[i].kind = "idle" /\ reqs'[i].kind = "transcribe" /\ reqs'[i].rec = id)
         => recs[id].status = "FAILED" /\ StoredFile(recs[id])
    /\ \A id \in RowIds :
         /\ recs[id].status = "STOPPED" => ~StoredFile(recs[id])
         /\ recs[id].status # "FAILED" => TranscribeError(id) = 400
    /\ (response' # response /\ response'.op = "transcribe" /\ response'.code # 200)
         => UNCHANGED <<recs, reqs>>

C27_RetryOnlyWhenFailed == [][C27_TranscribeStep]_vars

\* A rejected transcribe request with a STOPPED recording in the table,
\* while the task of an accepted one waits for another recording.
C27_Witness ==
    /\ response = [op |-> "transcribe", code |-> 400]
    /\ \E r \in RowIds : recs[r].status = "STOPPED"
    /\ \E i \in Slots :
         /\ reqs[i].kind = "transcribe"
         /\ recs[reqs[i].rec].status = "PROCESSING"
         /\ StoredFile(recs[reqs[i].rec])

\* C28: the task of an accepted transcribe (retry) request ends, and the
\* step that ends it leaves the Recording COMPLETED or FAILED, never
\* PROCESSING, whichever providers are configured.
C28_RetryEndStep ==
    \A i \in Slots :
        (reqs[i].kind = "transcribe" /\ reqs'[i].kind # "transcribe")
        => recs'[reqs[i].rec].status \in {"COMPLETED", "FAILED"}

FirstAppearance(segments, label) ==
    CHOOSE k \in DOMAIN segments :
        /\ segments[k].participant_identity = label
        /\ \A j \in 1..(k - 1) : segments[j].participant_identity # label

AppearanceRank(segments, label) ==
    Cardinality({segments[j].participant_identity : j \in 1..FirstAppearance(segments, label)}
                    \ {None})

RoleOfRank(rank) ==
    IF rank = 1 THEN "practitioner" ELSE IF rank = 2 THEN "patient" ELSE "unknown"

C22_RolesByFirstAppearance ==
    \A room \in DOMAIN active_sessions :
        LET session == active_sessions[room]
            segments == session.transcript_segments
        IN  session.diarization_enabled =>
                \A k \in DOMAIN segments :
                    Truthy(segments[k].participant_identity) =>
                    segments[k].speaker
                      = RoleOfRank(AppearanceRank(segments, segments[k].participant_identity))

\* C30: a room has a session exactly between a start and the next stop for
\* it.  After a stop the session and the callbacks of the room are gone, a
\* get_live_transcript or stop for a room without a session fails with
\* ValueError (404) and changes nothing, and an audio chunk for such a room
\* adds no segment and raises nothing.
C30_LiveStep ==
    \A room \in Rooms :
        /\ (room \notin DOMAIN active_sessions /\ room \in DOMAIN active_sessions')
             => live_result' = LiveResult("start", room, "ok")
        /\ (room \in DOMAIN active_sessions /\ room \notin DOMAIN active_sessions')
             => live_result' = LiveResult("stop", room, "ok")
        /\ live_result' = LiveResult("start", room, "ok")
             => /\ room \in DOMAIN active_sessions'
                /\ active_sessions'[room].transcript_segments = <<>>
                /\ transcription_callbacks'[room] = <<>>
        /\ live_result' = LiveResult("stop", room, "ok")
             => /\ room \in DOMAIN active_sessions
                /\ room \notin DOMAIN active_sessions'
                /\ room \notin DOMAIN transcription_callbacks'
        /\ (room \notin DOMAIN active_sessions /\ live_result'.room = room)
             => /\ live_result'.op \in {"get", "stop"} => live_result'.outcome = "ValueError"
                /\ live_result'.op = "chunk" => live_result'.outcome = "none"
                /\ live_result'.op # "start"
                     => UNCHANGED <<active_sessions, transcription_callbacks>>
        /\ (room \in DOMAIN active_sessions /\ live_result'.room = room)
             => live_result'.outcome # "ValueError"

C30_SessionBetweenStartAndStop == [][C30_LiveStep]_vars

\* An audio chunk arrived for a room without a session, while the other
\* room has a session with segments and a callback.
C30_Witness ==
    \E room, other \in Rooms :
        /\ live_result = LiveResult("chunk", room, "none")
        /\ room \notin DOMAIN active_sessions
        /\ room \notin DOMAIN transcription_callbacks
        /\ other \in DOMAIN active_sessions
        /\ active_sessions[other].transcript_segments # <<>>
        /\ transcription_callbacks[other] # <<>>

====
